---- MODULE Spec2Model ----
(***************************************************************************)
(* Model of featurize/featurize.py and featurize/utils.py: the tagging     *)
(* pipeline of main() over the global list `files` of per-wave dataframes, *)
(* and the per-wave company mapping.                                       *)
(*                                                                         *)
(* A dataframe (one row per slug, as main's groupby('slug') leaves it) is  *)
(* a record [slug |-> the set of its slugs,                                *)
(*           col  |-> [column name -> [slug -> cell]]].                    *)
(* The 'slug' column itself is the field slug; every other column is in    *)
(* DOMAIN col.  Cells are CSV text: int tags are "0"/"1", a missing value  *)
(* is NaN, the filler of standardize_files is "".  Waves are indexed from  *)
(* 0 as in the code.                                                       *)
(***************************************************************************)
EXTENDS Integers, Sequences, FiniteSets, TLC

VARIABLES files, full_files, filenames, file_count, slugs_at_i,
          slugs_up_to_i, tag_list, company, error, pc

vars == <<files, full_files, filenames, file_count, slugs_at_i,
          slugs_up_to_i, tag_list, company, error, pc>>

\* ------------------------------------------------------------------ bounds
MaxWaves == 4
MaxTemporalWaves == 3
MaxLicenseWaves == 3
MaxDateWaves == 2

\* ------------------------------------------------------------- input values
Slugs == {"a", "b"}
SLUG_ORDER == <<"a", "b", "c">>
NaN == "NaN"
None == "None"
NOT_APPLICABLE == ""
FieldValues == {NaN, "x", "y"}

\* featurize.py:19
TAG_CHANGE_FIELDS == <<"address", "dispensary_name", "email">>

\* The two dates tag_illegal_storefronts names, and the dates a panel file
\* name can start with (get_csvs_in_dir sorts the names, so a series is an
\* increasing choice of them).
DATE_191221 == "191221"
DATE_200112 == "200112"
PANEL_DATES == <<"191201", "191221", "200101", "200112", "200201">>

Waves == 0 .. (file_count - 1)

\* ---------------------------------------------------------- dataframe helpers
HasCol(df, c) == c \in DOMAIN df.col

Columns(df) == {"slug"} \cup DOMAIN df.col

\* df[c] = column : adds the column or overwrites it
WithCol(df, c, column) ==
  [df EXCEPT !.col = [k \in (DOMAIN df.col) \cup {c} |->
                        IF k = c THEN column ELSE df.col[k]]]

\* Series.apply(int) on a boolean series
PyInt(b) == IF b THEN "1" ELSE "0"

\* Python's x != y on cell values: NaN is unequal to everything, itself included
PyNe(x, y) == (x # y) \/ (x = NaN)

\* Python's seq[k] on a list of length n held as a function on 0..n-1:
\* a negative index counts from the end
PyIndex(seq, n, k) == IF k < 0 THEN seq[n + k] ELSE seq[k]

ChangedCol(field) == "changed_" \o field

\* ------------------------------------------------------------ tag_continued
ContinuedColumn(fs, i) ==
  [s \in fs[i].slug |-> PyInt(s \in fs[i - 1].slug)]

TagContinued ==
  /\ pc = "tag_continued"
  /\ files' = [i \in Waves |->
                 IF i >= 1 THEN WithCol(files[i], "continued", ContinuedColumn(files, i))
                 ELSE files[i]]
  /\ pc' = "tag_field_changes"
  /\ UNCHANGED <<full_files, filenames, file_count, slugs_at_i, slugs_up_to_i,
                 tag_list, company, error>>

\* -------------------------------------------------------- tag_field_changes
\* The fields the inner loop reaches in wave i: it breaks at the first field
\* missing from wave i or wave i-1, skipping the fields after it too.
FieldsReached(fs, i) ==
  {TAG_CHANGE_FIELDS[k] : k \in
     {k \in 1 .. Len(TAG_CHANGE_FIELDS) :
        \A j \in 1 .. k : /\ HasCol(fs[i], TAG_CHANGE_FIELDS[j])
                          /\ HasCol(fs[i - 1], TAG_CHANGE_FIELDS[j])}}

\* prev_slug_to_prev_field_value[slug], a defaultdict(lambda: None)
PrevFieldValue(prev_file, field, s) ==
  IF s \in prev_file.slug THEN prev_file.col[field][s] ELSE None

ChangedAdjacent(fs, i, field, s) ==
  PyInt(fs[i].col["continued"][s] = "1"
        /\ PyNe(PrevFieldValue(fs[i - 1], field, s), fs[i].col[field][s]))

FieldChangesAt(fs, i) ==
  [fs[i] EXCEPT !.col =
     [k \in (DOMAIN fs[i].col) \cup {ChangedCol(f) : f \in FieldsReached(fs, i)} |->
        IF \E f \in FieldsReached(fs, i) : k = ChangedCol(f)
        THEN LET f == CHOOSE f \in FieldsReached(fs, i) : k = ChangedCol(f)
             IN  [s \in fs[i].slug |-> ChangedAdjacent(fs, i, f, s)]
        ELSE fs[i].col[k]]]

TagFieldChanges ==
  /\ pc = "tag_field_changes"
  /\ files' = [i \in Waves |-> IF i >= 1 THEN FieldChangesAt(files, i) ELSE files[i]]
  /\ pc' = "tag_disappear"
  /\ UNCHANGED <<full_files, filenames, file_count, slugs_at_i, slugs_up_to_i,
                 tag_list, company, error>>

\* ------------------------------------------------------------ tag_disappear
DisappearedColumnNotNegated(fs, i) ==
  [s \in fs[i].slug |-> PyInt(s \in fs[i + 1].slug)]

DisappearedColumn(fs, i) ==
  [s \in fs[i].slug |-> PyInt(~(s \in fs[i + 1].slug))]

TagDisappear ==
  /\ pc = "tag_disappear"
  /\ files' = [i \in Waves |->
                 IF i < file_count - 1
                 THEN WithCol(files[i], "disappeared", DisappearedColumn(files, i))
                 ELSE files[i]]
  /\ pc' = "get_slug_sets"
  /\ UNCHANGED <<full_files, filenames, file_count, slugs_at_i, slugs_up_to_i,
                 tag_list, company, error>>

\* ------------------------------------- get_slugs_up_to_i_array, main 301-302
RECURSIVE SlugsUpTo(_, _)
SlugsUpTo(fs, i) ==
  IF i = 0 THEN fs[0].slug ELSE fs[i].slug \cup SlugsUpTo(fs, i - 1)

get_slugs_up_to_i_array(fs, n) == [i \in 0 .. (n - 1) |-> SlugsUpTo(fs, i)]

GetSlugSets ==
  /\ pc = "get_slug_sets"
  /\ slugs_up_to_i' = get_slugs_up_to_i_array(files, file_count)
  /\ slugs_at_i' = [i \in Waves |-> files[i].slug]
  /\ pc' = "tag_reappear"
  /\ UNCHANGED <<files, full_files, filenames, file_count, tag_list, company, error>>

\* ------------------------------------------------------------- tag_reappear
ReappearedTagNoPrevCheck(fs, up_to, i, s) == PyInt(s \in up_to[i - 2])

ReappearedTag(fs, up_to, i, s) ==
  PyInt(s \in up_to[i - 2] /\ ~(s \in fs[i - 1].slug))

TagReappear ==
  /\ pc = "tag_reappear"
  /\ files' = [i \in Waves |->
                 IF i >= 2
                 THEN WithCol(files[i], "reappeared",
                              [s \in files[i].slug |->
                                 ReappearedTag(files, slugs_up_to_i, i, s)])
                 ELSE files[i]]
  /\ pc' = "tag_reappear_field_changes"
  /\ UNCHANGED <<full_files, filenames, file_count, slugs_at_i, slugs_up_to_i,
                 tag_list, company, error>>

\* ------------------------------------------- get_last_appearance_field_value
\* The wave the reversed scan of 0..max_wave stops at: the latest wave holding
\* the slug, or 0 when the scan finds none and runs out.
LastAppearanceWave(slug, max_wave, at_i) ==
  IF \E k \in 0 .. max_wave : slug \in at_i[k]
  THEN CHOOSE k \in 0 .. max_wave :
         /\ slug \in at_i[k]
         /\ \A m \in 0 .. max_wave : slug \in at_i[m] => m <= k
  ELSE 0

\* last_slug_subset[field].iloc[0] raises IndexError on an empty subset
LastAppearanceRaises(slug, max_wave, at_i, fs) ==
  ~(slug \in fs[LastAppearanceWave(slug, max_wave, at_i)].slug)

get_last_appearance_field_value(slug, max_wave, field, at_i, fs) ==
  fs[LastAppearanceWave(slug, max_wave, at_i)].col[field][slug]

\* ----------------------------------------------- tag_reappear_field_changes
\* The fields the inner loop reaches in wave i: it breaks at the first field
\* missing from any of the waves 0..i.
ReappearFieldsReached(fs, i) ==
  {TAG_CHANGE_FIELDS[k] : k \in
     {k \in 1 .. Len(TAG_CHANGE_FIELDS) :
        \A j \in 1 .. k : \A w \in 0 .. i : HasCol(fs[w], TAG_CHANGE_FIELDS[j])}}

ChangedReappear(fs, at_i, i, field, s) ==
  IF fs[i].col["reappeared"][s] = "1"
  THEN PyInt(PyNe(get_last_appearance_field_value(s, i - 2, field, at_i, fs),
                  fs[i].col[field][s]))
  ELSE fs[i].col[ChangedCol(field)][s]

ReappearFieldChangesAt(fs, at_i, i) ==
  [fs[i] EXCEPT !.col =
     [k \in DOMAIN fs[i].col |->
        IF \E f \in ReappearFieldsReached(fs, i) : k = ChangedCol(f)
        THEN LET f == CHOOSE f \in ReappearFieldsReached(fs, i) : k = ChangedCol(f)
             IN  [s \in fs[i].slug |-> ChangedReappear(fs, at_i, i, f, s)]
        ELSE fs[i].col[k]]]

ReappearFieldChangesRaises(fs, at_i, n) ==
  \E i \in 2 .. (n - 1) : \E s \in fs[i].slug :
    /\ ReappearFieldsReached(fs, i) # {}
    /\ fs[i].col["reappeared"][s] = "1"
    /\ LastAppearanceRaises(s, i - 2, at_i, fs)

TagReappearFieldChanges ==
  /\ pc = "tag_reappear_field_changes"
  /\ IF ReappearFieldChangesRaises(files, slugs_at_i, file_count)
     THEN /\ error' = "IndexError"
          /\ pc' = "raised"
          /\ UNCHANGED files
     ELSE /\ files' = [i \in Waves |->
                         IF i >= 2 THEN ReappearFieldChangesAt(files, slugs_at_i, i)
                         ELSE files[i]]
          /\ pc' = "tag_illegal_storefronts"
          /\ UNCHANGED error
  /\ UNCHANGED <<full_files, filenames, file_count, slugs_at_i, slugs_up_to_i,
                 tag_list, company>>

\* -------------------------------------------------- tag_illegal_storefronts
\* x[:6] of a panel file name.  A file name is held as its six-character date
\* prefix, so `date in filename` is equality with that prefix.
FileDate(filename) == filename

DateInSeries(date, names, n) == \E i \in 0 .. (n - 1) : FileDate(names[i]) = date

get_index_of_date(date, names, n) ==
  CHOOSE i \in 0 .. (n - 1) :
    /\ FileDate(names[i]) = date
    /\ \A j \in 0 .. (i - 1) : FileDate(names[j]) # date

\* the step returns at once unless both dates are in the series
IllegalStepSkipped(names, n) ==
  ~DateInSeries(DATE_191221, names, n) \/ ~DateInSeries(DATE_200112, names, n)

In191221Not200112All(at_i, names, n) ==
  at_i[get_index_of_date(DATE_191221, names, n)]

In191221Not200112(at_i, names, n) ==
  at_i[get_index_of_date(DATE_191221, names, n)]
    \ at_i[get_index_of_date(DATE_200112, names, n)]

Before191221Not200112Or191221(at_i, up_to, names, n) ==
  (PyIndex(up_to, n, get_index_of_date(DATE_191221, names, n) - 1)
     \ at_i[get_index_of_date(DATE_200112, names, n)])
    \ at_i[get_index_of_date(DATE_191221, names, n)]

IllegalAt(df, at_i, up_to, names, n) ==
  WithCol(WithCol(df, "illegal_1912",
                  [s \in df.slug |-> PyInt(s \in In191221Not200112(at_i, names, n))]),
          "illegal_other",
          [s \in df.slug |->
             PyInt(s \in Before191221Not200112Or191221(at_i, up_to, names, n))])

TagIllegalStorefronts ==
  /\ pc = "tag_illegal_storefronts"
  /\ files' = IF IllegalStepSkipped(filenames, file_count)
              THEN files
              ELSE [i \in Waves |->
                      IF FileDate(filenames[i]) # DATE_200112
                      THEN IllegalAt(files[i], slugs_at_i, slugs_up_to_i,
                                     filenames, file_count)
                      ELSE files[i]]
  /\ pc' = "tag_dispensary_or_delivery"
  /\ UNCHANGED <<full_files, filenames, file_count, slugs_at_i, slugs_up_to_i,
                 tag_list, company, error>>

\* ----------------------------------------------- tag_dispensary_or_delivery
DISPENSARY_MARKER == "weedmaps.com/dispensaries/"
DELIVERY_MARKER == "weedmaps.com/deliveries/"

\* the listing URL of each slug in the modelled input
Url(s) == IF s = "a" THEN "https://weedmaps.com/dispensaries/a"
          ELSE IF s = "b" THEN "https://weedmaps.com/deliveries/b"
          ELSE "https://weedmaps.com/dispensaries/c"

\* str.contains(marker) on the URLs above
UrlContains(url, marker) ==
  \/ marker = DISPENSARY_MARKER
     /\ url \in {"https://weedmaps.com/dispensaries/a",
                 "https://weedmaps.com/dispensaries/c"}
  \/ marker = DELIVERY_MARKER /\ url = "https://weedmaps.com/deliveries/b"

DispensaryOrDeliveryAt(df) ==
  WithCol(WithCol(df, "is_dispensary",
                  [s \in df.slug |-> PyInt(UrlContains(df.col["url"][s], DISPENSARY_MARKER))]),
          "is_delivery",
          [s \in df.slug |-> PyInt(UrlContains(df.col["url"][s], DELIVERY_MARKER))])

TagDispensaryOrDelivery ==
  /\ pc = "tag_dispensary_or_delivery"
  /\ files' = [i \in Waves |-> DispensaryOrDeliveryAt(files[i])]
  /\ pc' = "standardize_files"
  /\ UNCHANGED <<full_files, filenames, file_count, slugs_at_i, slugs_up_to_i,
                 tag_list, company, error>>

\* -------------------------------------------------------- standardize_files
get_column_difference(df1, df2) == Columns(df1) \ Columns(df2)

\* the wave the first loop keeps: the first one with the most tags
MaxTagWave(fs, full, n) ==
  CHOOSE i \in 0 .. (n - 1) :
    /\ \A j \in 0 .. (n - 1) :
         Cardinality(get_column_difference(fs[j], full[j]))
           <= Cardinality(get_column_difference(fs[i], full[i]))
    /\ \A j \in 0 .. (i - 1) :
         Cardinality(get_column_difference(fs[j], full[j]))
           < Cardinality(get_column_difference(fs[i], full[i]))

MaxFileTagSet(fs, full, n) ==
  get_column_difference(fs[MaxTagWave(fs, full, n)], full[MaxTagWave(fs, full, n)])

StandardizeAt(df, tags) ==
  [df EXCEPT !.col = [k \in (DOMAIN df.col) \cup tags |->
                        IF k \in DOMAIN df.col THEN df.col[k]
                        ELSE [s \in df.slug |-> NOT_APPLICABLE]]]

StandardizeFiles ==
  /\ pc = "standardize_files"
  /\ tag_list' = MaxFileTagSet(files, full_files, file_count)
  /\ files' = [i \in Waves |->
                 StandardizeAt(files[i], MaxFileTagSet(files, full_files, file_count))]
  /\ pc' = "merge"
  /\ UNCHANGED <<full_files, filenames, file_count, slugs_at_i, slugs_up_to_i,
                 company, error>>

\* ------------------------------------------------------------- main 315-317
\* pd.merge(full_files[i], files[i][['slug'] + tag_list], on='slug')
MergeAt(full, df, tags) ==
  [slug |-> full.slug \cap df.slug,
   col  |-> [k \in (DOMAIN full.col) \cup tags |->
               [s \in full.slug \cap df.slug |->
                  IF k \in tags THEN df.col[k][s] ELSE full.col[k][s]]]]

MergeTags ==
  /\ pc = "merge"
  /\ files' = [i \in Waves |-> MergeAt(full_files[i], files[i], tag_list)]
  /\ pc' = "write_output"
  /\ UNCHANGED <<full_files, filenames, file_count, slugs_at_i, slugs_up_to_i,
                 tag_list, company, error>>

\* ------------------------------------------------------------------- main
\* A panel wave as main's groupby leaves it: its slugs, and the given columns
\* with the cell cell[s, c] for slug s and column c.
Frame(slugset, cols, cell) ==
  [slug |-> slugset, col |-> [c \in cols |-> [s \in slugset |-> cell[s, c]]]]

PanelColumns == {"url", "address", "dispensary_name", "email"}

\* increasing choices of n panel dates
DateChoices(n) ==
  {d \in [0 .. (n - 1) -> 1 .. Len(PANEL_DATES)] :
     \A i \in 0 .. (n - 2) : d[i] < d[i + 1]}

\* main up to line 293, without license input: every wave has all the panel
\* columns, a listing keeps its field values from wave to wave.
InitMain ==
  /\ file_count \in 1 .. MaxWaves
  /\ \E d \in DateChoices(file_count) :
       filenames = [i \in Waves |-> PANEL_DATES[d[i]]]
  /\ \E present \in [Waves -> (SUBSET Slugs) \ {{}}] :
       files = [i \in Waves |->
                  Frame(present[i], PanelColumns,
                        [s \in Slugs, c \in PanelColumns |->
                           IF c = "url" THEN Url(s) ELSE "x"])]
  /\ full_files = files
  /\ slugs_at_i = << >>
  /\ slugs_up_to_i = << >>
  /\ tag_list = {}
  /\ company = << >>
  /\ error = "none"
  /\ pc = "tag_continued"

NextMain ==
  \/ TagContinued
  \/ TagFieldChanges
  \/ TagDisappear
  \/ GetSlugSets
  \/ TagReappear
  \/ TagReappearFieldChanges
  \/ TagIllegalStorefronts
  \/ TagDispensaryOrDelivery
  \/ StandardizeFiles
  \/ MergeTags

Spec == InitMain /\ [][NextMain]_vars

\* ------------------------------------------------------- tag_license_status
\* featurize.py:67
LICENSE_STATUSES == {"active", "canceled", "expired", "revoked", "suspended"}

\* the characters of the status texts and category words of the model
Chars(str) ==
  CASE str = "active" -> <<"a", "c", "t", "i", "v", "e">>
    [] str = "canceled" -> <<"c", "a", "n", "c", "e", "l", "e", "d">>
    [] str = "expired" -> <<"e", "x", "p", "i", "r", "e", "d">>
    [] str = "revoked" -> <<"r", "e", "v", "o", "k", "e", "d">>
    [] str = "suspended" -> <<"s", "u", "s", "p", "e", "n", "d", "e", "d">>
    [] str = "active, pending renewal" ->
         <<"a", "c", "t", "i", "v", "e", ",", " ", "p", "e", "n", "d", "i", "n", "g",
           " ", "r", "e", "n", "e", "w", "a", "l">>

\* Series.str.contains(word) on one cell: a substring search, NaN on a
\* missing cell, which the & with the other conditions takes as False
StrContains(text, word) ==
  /\ text # NaN
  /\ \E k \in 0 .. (Len(Chars(text)) - Len(Chars(word))) :
       SubSeq(Chars(text), k + 1, k + Len(Chars(word))) = Chars(word)

\* the characters of the date strings of the model
DateChars(string) ==
  CASE string = "06/01/2019" -> <<"0", "6", "/", "0", "1", "/", "2", "0", "1", "9">>
    [] string = "03/01/2020" -> <<"0", "3", "/", "0", "1", "/", "2", "0", "2", "0">>
    [] string = "2019/06/01" -> <<"2", "0", "1", "9", "/", "0", "6", "/", "0", "1">>
    [] string = "2020-01-12" -> <<"2", "0", "2", "0", "-", "0", "1", "-", "1", "2">>
    [] string = "01/12/2020" -> <<"0", "1", "/", "1", "2", "/", "2", "0", "2", "0">>

DIGITS == <<"0", "1", "2", "3", "4", "5", "6", "7", "8", "9">>

IsDigit(c) == \E k \in 1 .. Len(DIGITS) : DIGITS[k] = c

DigitValue(c) == (CHOOSE k \in 1 .. Len(DIGITS) : DIGITS[k] = c) - 1

\* the character runs between the occurrences of sep
RECURSIVE SplitChars(_, _)
SplitChars(chars, sep) ==
  IF chars = << >> THEN << << >> >>
  ELSE LET rest == SplitChars(Tail(chars), sep)
       IN  IF Head(chars) = sep THEN << << >> >> \o rest
           ELSE << <<Head(chars)>> \o rest[1] >> \o Tail(rest)

RECURSIVE Number(_)
Number(digs) ==
  IF digs = << >> THEN 0
  ELSE 10 * Number(SubSeq(digs, 1, Len(digs) - 1)) + DigitValue(digs[Len(digs)])

\* datetime.strptime(string, formt) for the two formats of tag_license_status:
\* the year, month and day the string holds, in the order and with the
\* separator of the format
StrptimeParts(formt, string) ==
  LET parts == SplitChars(DateChars(string), IF formt = "%m/%d/%Y" THEN "/" ELSE "-")
  IN  IF Len(parts) # 3 THEN << >>
      ELSE IF formt = "%m/%d/%Y"
           THEN [Y |-> parts[3], m |-> parts[1], d |-> parts[2]]
           ELSE [Y |-> parts[1], m |-> parts[2], d |-> parts[3]]

\* strptime raises ValueError on a string that is not in the format: %Y is
\* four digits, %m one or two digits in 1..12, %d one or two digits in 1..31
StrptimeRaises(formt, string) ==
  LET p == StrptimeParts(formt, string)
  IN  \/ p = << >>
      \/ \E f \in {"Y", "m", "d"} : p[f] = << >> \/ \E k \in 1 .. Len(p[f]) : ~IsDigit(p[f][k])
      \/ Len(p.Y) # 4
      \/ Len(p.m) > 2 \/ ~(Number(p.m) \in 1 .. 12)
      \/ Len(p.d) > 2 \/ ~(Number(p.d) \in 1 .. 31)

\* convert_str_to_datetime_maker(formt)(string) on a string in the format,
\* as the day's number yyyymmdd
convert_str_to_datetime(formt, string) ==
  LET p == StrptimeParts(formt, string)
  IN  Number(p.Y) * 10000 + Number(p.m) * 100 + Number(p.d)

\* issue_date <= access_date row by row; a missing date is NaT in a converted
\* series of dates and compares False
IssuedByAccessDate(df, s) ==
  /\ df.col["issue_date"][s] # NaN
  /\ df.col["access_date"][s] # NaN
  /\ convert_str_to_datetime("%m/%d/%Y", df.col["issue_date"][s])
       <= convert_str_to_datetime("%Y-%m-%d", df.col["access_date"][s])

IssuedAfterAccessDate(df, s) ==
  /\ df.col["issue_date"][s] # NaN
  /\ df.col["access_date"][s] # NaN
  /\ convert_str_to_datetime("%m/%d/%Y", df.col["issue_date"][s])
       > convert_str_to_datetime("%Y-%m-%d", df.col["access_date"][s])

\* Series.apply(convert) calls strptime on every cell that is not a float, so
\* one string of the wave that is not in its format raises ValueError
DateConversionRaises(df) ==
  \E s \in df.slug :
    \/ /\ df.col["issue_date"][s] # NaN
       /\ StrptimeRaises("%m/%d/%Y", df.col["issue_date"][s])
    \/ /\ df.col["access_date"][s] # NaN
       /\ StrptimeRaises("%Y-%m-%d", df.col["access_date"][s])

\* a converted column with no date at all is a float series
AllMissing(df, c) == \A s \in df.slug : df.col[c][s] = NaN

\* ordering a float series against a series of dates raises TypeError
DateComparisonRaises(df) ==
  AllMissing(df, "issue_date") # AllMissing(df, "access_date")

\* `license_status in file['status'].unique()`: some row's status IS the word
StatusInUnique(df, license_status) ==
  \E s \in df.slug : df.col["status"][s] = license_status

StatusTagName(license_status) == license_status \o "_license"

StatusTag(df, license_status, s) ==
  PyInt(/\ df.col["license"][s] # NaN
        /\ df.col["issue_date"][s] # NaN
        /\ IssuedByAccessDate(df, s)
        /\ StrContains(df.col["status"][s], license_status))

\* lines 67-78: the category tags of one wave
WithStatusTags(df) ==
  LET made == {c \in LICENSE_STATUSES : StatusInUnique(df, c)}
  IN  [df EXCEPT !.col =
         [k \in (DOMAIN df.col) \cup {StatusTagName(c) : c \in made} |->
            IF \E c \in made : k = StatusTagName(c)
            THEN LET c == CHOOSE c \in made : k = StatusTagName(c)
                 IN  [s \in df.slug |-> StatusTag(df, c, s)]
            ELSE df.col[k]]]

\* lines 80-83
WithPossibleLicense(df) ==
  WithCol(df, "possible_license",
          [s \in df.slug |->
             PyInt(df.col["license"][s] # NaN /\ df.col["issue_date"][s] = NaN)])

\* lines 85-92
WithFutureLicense(df) ==
  WithCol(df, "future_license_explicit",
          [s \in df.slug |->
             PyInt(/\ df.col["license"][s] # NaN
                   /\ df.col["issue_date"][s] # NaN
                   /\ IssuedAfterAccessDate(df, s))])

\* The comparison of lines 89-90 is made on every wave that has a license
\* column.  With no issue date in the whole wave the converted issue dates are
\* a float series, and ordering it against the access dates raises TypeError.
FutureLicenseRaises(df) ==
  HasCol(df, "license") /\ (DateConversionRaises(df) \/ DateComparisonRaises(df))

\* The comparison of lines 74-75 is made for the first category word that is
\* some row's status; when it raises, no tag has been set on the wave.
StatusTagsRaise(df) ==
  /\ FutureLicenseRaises(df)
  /\ \E c \in LICENSE_STATUSES : StatusInUnique(df, c)

\* the conversions are made before the comparison
LicenseStatusError(df) ==
  IF DateConversionRaises(df) THEN "ValueError" ELSE "TypeError"

LicenseStatusAt(df) ==
  IF ~HasCol(df, "license") \/ StatusTagsRaise(df) THEN df
  ELSE IF FutureLicenseRaises(df) THEN WithPossibleLicense(WithStatusTags(df))
  ELSE WithFutureLicense(WithPossibleLicense(WithStatusTags(df)))

TagLicenseStatus ==
  /\ pc = "tag_license_status"
  /\ IF \E i \in Waves : FutureLicenseRaises(files[i])
     THEN LET r == CHOOSE i \in Waves :
                     /\ FutureLicenseRaises(files[i])
                     /\ \A j \in 0 .. (i - 1) : ~FutureLicenseRaises(files[j])
          IN  /\ files' = [i \in Waves |->
                             IF i <= r THEN LicenseStatusAt(files[i]) ELSE files[i]]
              /\ error' = LicenseStatusError(files[r])
              /\ pc' = "raised"
     ELSE /\ files' = [i \in Waves |-> LicenseStatusAt(files[i])]
          /\ pc' = "tag_assumed_license_status"
          /\ UNCHANGED error
  /\ UNCHANGED <<full_files, filenames, file_count, slugs_at_i, slugs_up_to_i,
                 tag_list, company>>

\* ----------------------------------------------- tag_assumed_license_status
\* set(x['slug'][x['active_license'] == 1])
ActiveLicenseSlugs(df) ==
  {s \in df.slug : df.col["active_license"][s] = "1"}

\* active_license_slugs_after_i[i] once the reversed loop is done
RECURSIVE ActiveLicenseSlugsAfter(_, _, _)
ActiveLicenseSlugsAfter(fs, n, i) ==
  IF i >= n - 1 THEN {}
  ELSE IF HasCol(fs[i + 1], "license")
       THEN ActiveLicenseSlugs(fs[i + 1]) \cup ActiveLicenseSlugsAfter(fs, n, i + 1)
       ELSE ActiveLicenseSlugsAfter(fs, n, i + 1)

ActiveLicenseSlugsAt(df) ==
  IF HasCol(df, "license") THEN ActiveLicenseSlugs(df) ELSE {}

\* x['active_license'] raises KeyError on a wave that has a license column and
\* no active_license tag: in the reversed loop for the waves 1..N-1, in the map
\* over files for every wave
AssumedLicenseRaises(fs, n) ==
  \E i \in 0 .. (n - 1) : HasCol(fs[i], "license") /\ ~HasCol(fs[i], "active_license")

AssumedLicenseColumn(fs, n, i) ==
  [s \in fs[i].slug |->
     PyInt(s \in ActiveLicenseSlugsAfter(fs, n, i) /\ ~(s \in ActiveLicenseSlugsAt(fs[i])))]

TagAssumedLicenseStatus ==
  /\ pc = "tag_assumed_license_status"
  /\ IF AssumedLicenseRaises(files, file_count)
     THEN /\ error' = "KeyError"
          /\ pc' = "raised"
          /\ UNCHANGED files
     ELSE /\ files' = [i \in Waves |->
                         WithCol(files[i], "assumed_license",
                                 AssumedLicenseColumn(files, file_count, i))]
          /\ pc' = "tag_continued"
          /\ UNCHANGED error
  /\ UNCHANGED <<full_files, filenames, file_count, slugs_at_i, slugs_up_to_i,
                 tag_list, company>>

\* ------------------------------------------------------ gen_company_mapping
\* df_sim_2.index: the slugs of the wave in sorted order, as groupby leaves them
SortedSlugs(slugset) == SelectSeq(SLUG_ORDER, LAMBDA s : s \in slugset)

\* a local variable of the row loop that no row has assigned yet
UNBOUND == "<unbound>"

\* ht[key].append(sid) on a defaultdict(lambda: [])
HtAppend(ht, key, sid) ==
  [k \in (DOMAIN ht) \cup {key} |->
     IF k = key THEN (IF key \in DOMAIN ht THEN Append(ht[key], sid) ELSE <<sid>>)
     ELSE ht[k]]

\* One pass of the loop of lines 97-108 over the row of sid.  prod_set, email
\* and phone are assigned only from a non-null cell and otherwise keep what an
\* earlier row left in them; using one that no row has assigned raises
\* UnboundLocalError.  (product_name holds a frozenset, which is never null.)
RowStep(df, st, sid) ==
  LET email == IF df.col["email"][sid] # NaN THEN df.col["email"][sid] ELSE st.email
      phone == IF HasCol(df, "phone") /\ df.col["phone"][sid] # NaN
               THEN df.col["phone"][sid] ELSE st.phone
      raises == (HasCol(df, "phone") /\ phone = UNBOUND) \/ email = UNBOUND
  IN  IF st.raised \/ raises THEN [st EXCEPT !.raised = TRUE]
      ELSE [prod_set   |-> df.col["product_name"][sid],
            email      |-> email,
            phone      |-> phone,
            raised     |-> FALSE,
            phone_ht   |-> IF HasCol(df, "phone") THEN HtAppend(st.phone_ht, phone, sid)
                           ELSE st.phone_ht,
            product_ht |-> HtAppend(st.product_ht, df.col["product_name"][sid], sid),
            email_ht   |-> HtAppend(st.email_ht, email, sid)]

RECURSIVE RowLoop(_, _, _, _)
RowLoop(df, rows, k, st) ==
  IF k > Len(rows) THEN st ELSE RowLoop(df, rows, k + 1, RowStep(df, st, rows[k]))

HashTables(df) ==
  RowLoop(df, SortedSlugs(df.slug), 1,
          [prod_set |-> UNBOUND, email |-> UNBOUND, phone |-> UNBOUND, raised |-> FALSE,
           phone_ht |-> << >>, product_ht |-> << >>, email_ht |-> << >>])

\* DisjointSet, held as the map from each element to the root of its set.
\* ds.union(x, y) hangs the root of x under the root of y.
DsUnion(ds, x, y) == [z \in DOMAIN ds |-> IF ds[z] = ds[x] THEN ds[y] ELSE ds[z]]

\* first_sid = bucket[0]; for curr_sid in bucket[1:]: ds.union(first_sid, curr_sid)
RECURSIVE UnionBucket(_, _, _)
UnionBucket(ds, bucket, k) ==
  IF k > Len(bucket) THEN ds
  ELSE UnionBucket(DsUnion(ds, bucket[1], bucket[k]), bucket, k + 1)

\* for key in ht: union the bucket of key
RECURSIVE UnionBuckets(_, _, _)
UnionBuckets(ds, ht, keys) ==
  IF keys = {} THEN ds
  ELSE LET key == CHOOSE key \in keys : TRUE
       IN  UnionBuckets(UnionBucket(ds, ht[key], 2), ht, keys \ {key})

\* lines 86-135: the company of each slug.  A company id is a fresh uuid per
\* set of ds.itersets(), held here as the set it names.
CompanyMapping(df) ==
  LET ht  == HashTables(df)
      ds0 == [s \in df.slug |-> s]
      ds1 == UnionBuckets(ds0, ht.product_ht, DOMAIN ht.product_ht)
      ds2 == UnionBuckets(ds1, ht.email_ht, DOMAIN ht.email_ht)
      ds3 == IF HasCol(df, "phone")
             THEN UnionBuckets(ds2, ht.phone_ht, DOMAIN ht.phone_ht) ELSE ds2
  IN  [s \in df.slug |-> {u \in df.slug : ds3[u] = ds3[s]}]

\* main 324-325
GenCompanyMapping ==
  /\ pc = "gen_company_mapping"
  /\ IF \E i \in Waves : HashTables(files[i]).raised
     THEN /\ error' = "UnboundLocalError"
          /\ pc' = "raised"
          /\ UNCHANGED company
     ELSE /\ company' = [i \in Waves |-> CompanyMapping(files[i])]
          /\ pc' = "done"
          /\ UNCHANGED error
  /\ UNCHANGED <<files, full_files, filenames, file_count, slugs_at_i, slugs_up_to_i,
                 tag_list>>

\* ======================================================================
\* Properties of the tagging pipeline (specification Spec)
\* ======================================================================
\* the tags are on `files` from the step that computes them until
\* standardize_files fills the missing ones in
AfterTagDisappear ==
  pc \in {"get_slug_sets", "tag_reappear", "tag_reappear_field_changes",
          "tag_illegal_storefronts", "tag_dispensary_or_delivery", "standardize_files"}

AfterTagReappear ==
  pc \in {"tag_reappear_field_changes", "tag_illegal_storefronts",
          "tag_dispensary_or_delivery", "standardize_files"}

AfterTagIllegal == pc \in {"tag_dispensary_or_delivery", "standardize_files"}

\* slugs(0) \cup ... \cup slugs(k) of the input waves
PrefixUnion(k) == UNION {full_files[j].slug : j \in 0 .. k}

\* C1: once tag_reappear has run, every wave i >= 2 has the reappeared tag, and
\* for every slug of the wave it is 1 exactly when the slug is in the prefix
\* union of waves 0..i-2 and not in wave i-1; a reappeared slug has continued 0.
C1_ReappearedIffSeenBeforeAndGone ==
  AfterTagReappear =>
    \A i \in Waves : i >= 2 =>
      /\ HasCol(files[i], "reappeared")
      /\ \A s \in files[i].slug :
           /\ files[i].col["reappeared"][s] \in {"0", "1"}
           /\ (files[i].col["reappeared"][s] = "1")
                <=> (s \in PrefixUnion(i - 2) /\ s \notin full_files[i - 1].slug)
           /\ (files[i].col["reappeared"][s] = "1")
                => files[i].col["continued"][s] = "0"

C1_Witness ==
  /\ AfterTagReappear
  /\ \E i \in Waves : \E s \in files[i].slug :
       /\ i >= 3
       /\ files[i].col["reappeared"][s] = "1"
       /\ s \notin full_files[i - 2].slug
       /\ \E t \in files[i].slug : files[i].col["reappeared"][t] = "0"

\* C2: once tag_continued and tag_disappear have run, continued is 1 on a slug
\* of wave i > 0 exactly when the slug is in wave i-1, disappeared is 1 on a
\* slug of wave i < N-1 exactly when the slug is not in wave i+1, wave 0 has no
\* continued tag and wave N-1 has no disappeared tag.
C2_ContinuedAndDisappeared ==
  AfterTagDisappear =>
    /\ ~HasCol(files[0], "continued")
    /\ ~HasCol(files[file_count - 1], "disappeared")
    /\ \A i \in Waves : i > 0 =>
         /\ HasCol(files[i], "continued")
         /\ \A s \in files[i].slug :
              /\ files[i].col["continued"][s] \in {"0", "1"}
              /\ (files[i].col["continued"][s] = "1") <=> (s \in full_files[i - 1].slug)
    /\ \A i \in Waves : i < file_count - 1 =>
         /\ HasCol(files[i], "disappeared")
         /\ \A s \in files[i].slug :
              /\ files[i].col["disappeared"][s] \in {"0", "1"}
              /\ (files[i].col["disappeared"][s] = "1")
                   <=> (s \notin full_files[i + 1].slug)

C2_Witness ==
  /\ AfterTagDisappear
  /\ file_count >= 3
  /\ \E s \in files[1].slug, t \in files[1].slug :
       /\ files[1].col["continued"][s] = "1"
       /\ files[1].col["disappeared"][s] = "1"
       /\ files[1].col["continued"][t] = "0"
       /\ files[1].col["disappeared"][t] = "0"

\* the anchor waves of the illegal-storefront step
AnchorPresent(date) == \E i \in Waves : filenames[i] = date

AnchorWave(date) == CHOOSE i \in Waves : filenames[i] = date

NoIllegalTags(i) ==
  ~HasCol(files[i], "illegal_1912") /\ ~HasCol(files[i], "illegal_other")

Illegal1912AsSpecified(i) ==
  /\ HasCol(files[i], "illegal_1912")
  /\ \A s \in files[i].slug :
       /\ files[i].col["illegal_1912"][s] \in {"0", "1"}
       /\ (files[i].col["illegal_1912"][s] = "1")
            <=> /\ s \in full_files[AnchorWave(DATE_191221)].slug
                /\ s \notin full_files[AnchorWave(DATE_200112)].slug

\* C8 (as amended): tag_illegal_storefronts is a no-op whenever at least one of
\* the two anchor waves is absent from the series; when both are present every
\* wave other than the second anchor wave gets illegal_1912, 1 exactly on the
\* slugs that are in the first anchor wave and not in the second, and the
\* second anchor wave gets no illegal tag.
C8_IllegalStepNeedsBothAnchors ==
  AfterTagIllegal =>
    IF AnchorPresent(DATE_191221) /\ AnchorPresent(DATE_200112)
    THEN \A i \in Waves :
           IF filenames[i] = DATE_200112 THEN NoIllegalTags(i)
           ELSE Illegal1912AsSpecified(i)
    ELSE \A i \in Waves : NoIllegalTags(i)

C8_Witness ==
  /\ AfterTagIllegal
  /\ AnchorPresent(DATE_191221) /\ AnchorPresent(DATE_200112)
  /\ \E i \in Waves : \E s \in files[i].slug, t \in files[i].slug :
       /\ filenames[i] \notin {DATE_191221, DATE_200112}
       /\ files[i].col["illegal_1912"][s] = "1"
       /\ files[i].col["illegal_1912"][t] = "0"

\* C8 as stated: the step is a no-op only when both anchor waves are absent; in
\* every other case each wave other than the second anchor wave gets
\* illegal_1912 (with the values above when both anchors are present), and the
\* second anchor wave gets no illegal tag.
C8_NoOpOnlyWhenBothAnchorsAbsent ==
  AfterTagIllegal =>
    IF ~AnchorPresent(DATE_191221) /\ ~AnchorPresent(DATE_200112)
    THEN \A i \in Waves : NoIllegalTags(i)
    ELSE \A i \in Waves :
           IF filenames[i] = DATE_200112 THEN NoIllegalTags(i)
           ELSE /\ HasCol(files[i], "illegal_1912")
                /\ (AnchorPresent(DATE_191221) /\ AnchorPresent(DATE_200112))
                     => Illegal1912AsSpecified(i)

\* C9: with both anchor waves in the series, illegal_other is 1 on a record
\* exactly when its slug is in some wave strictly before the first anchor wave
\* and in neither anchor wave.
C9_IllegalOtherOnlyForSlugsSeenBeforeFirstAnchor ==
  (AfterTagIllegal /\ AnchorPresent(DATE_191221) /\ AnchorPresent(DATE_200112)) =>
    \A i \in Waves : \A s \in files[i].slug :
      (HasCol(files[i], "illegal_other") /\ files[i].col["illegal_other"][s] = "1")
        <=> /\ \E k \in Waves : k < AnchorWave(DATE_191221) /\ s \in full_files[k].slug
            /\ s \notin full_files[AnchorWave(DATE_191221)].slug
            /\ s \notin full_files[AnchorWave(DATE_200112)].slug

\* the tags computed for at least one wave
TagsOfAnyWave == UNION {get_column_difference(files[j], full_files[j]) : j \in Waves}

\* C10: standardize_files and the merge leave every tag computed for at least
\* one wave in every wave's output: with its computed values where it was
\* computed, with "" where it was not.
C10_EveryWaveCarriesEveryTag ==
  [][/\ pc = "standardize_files" =>
          \A i \in Waves : \A t \in TagsOfAnyWave :
            /\ HasCol(files[i], t) => (HasCol(files'[i], t) /\ files'[i].col[t] = files[i].col[t])
            /\ (~HasCol(files[i], t) /\ HasCol(files'[i], t)) =>
                 \A s \in files[i].slug : files'[i].col[t][s] = NOT_APPLICABLE
     /\ pc = "merge" =>
          \A i \in Waves : \A t \in TagsOfAnyWave :
            /\ HasCol(files'[i], t)
            /\ \A s \in files[i].slug :
                 files'[i].col[t][s] =
                   IF HasCol(files[i], t) THEN files[i].col[t][s] ELSE NOT_APPLICABLE
    ]_vars

\* ======================================================================
\* Field changes (specification SpecTemporal)
\* ======================================================================
\* the panel columns a wave can come with: all of them, or all but one
\* monitored field
ColumnChoices ==
  {PanelColumns, PanelColumns \ {"address"}, PanelColumns \ {"email"}}

\* Waves whose monitored fields vary: listing "a" carries, where present, one
\* of the field values (NaN: the field is empty) in each of its monitored
\* fields; listing "b" always carries "x".
InitTemporal ==
  /\ file_count \in 1 .. MaxTemporalWaves
  /\ filenames = [i \in Waves |-> PANEL_DATES[i + 1]]
  /\ \E a \in [Waves -> FieldValues \cup {"absent"}], b \in [Waves -> BOOLEAN],
        cols \in [Waves -> ColumnChoices] :
       /\ \A i \in Waves : a[i] # "absent" \/ b[i]
       /\ files = [i \in Waves |->
                     Frame({s \in Slugs : (s = "a" /\ a[i] # "absent") \/ (s = "b" /\ b[i])},
                           cols[i],
                           [s \in Slugs, c \in PanelColumns |->
                              IF c = "url" THEN Url(s)
                              ELSE IF s = "a" THEN a[i] ELSE "x"])]
  /\ full_files = files
  /\ slugs_at_i = << >>
  /\ slugs_up_to_i = << >>
  /\ tag_list = {}
  /\ company = << >>
  /\ error = "none"
  /\ pc = "tag_continued"

NextTemporal ==
  \/ TagContinued
  \/ TagFieldChanges
  \/ TagDisappear
  \/ GetSlugSets
  \/ TagReappear
  \/ TagReappearFieldChanges

SpecTemporal == InitTemporal /\ [][NextTemporal]_vars

AfterTagFieldChanges ==
  pc \in {"tag_disappear", "get_slug_sets", "tag_reappear", "tag_reappear_field_changes"}

MonitoredFields == {TAG_CHANGE_FIELDS[k] : k \in 1 .. Len(TAG_CHANGE_FIELDS)}

\* C3: once tag_field_changes has run, for every wave i >= 1, every monitored
\* field present in wave i-1 and in wave i and every slug of wave i, the
\* changed_<field> tag is 1 exactly when continued is 1 and the field's value
\* in wave i is not its value in wave i-1 (two missing values do not differ).
C3_ChangedIffContinuedAndValueDiffers ==
  AfterTagFieldChanges =>
    \A i \in Waves : i >= 1 =>
      \A f \in MonitoredFields :
        (HasCol(full_files[i], f) /\ HasCol(full_files[i - 1], f)) =>
          \A s \in files[i].slug :
            (HasCol(files[i], ChangedCol(f)) /\ files[i].col[ChangedCol(f)][s] = "1")
              <=> /\ files[i].col["continued"][s] = "1"
                  /\ full_files[i].col[f][s] # full_files[i - 1].col[f][s]

\* the latest wave k <= max_wave that holds the slug
LatestWaveWith(s, max_wave) ==
  CHOOSE k \in 0 .. max_wave :
    /\ s \in full_files[k].slug
    /\ \A m \in (k + 1) .. max_wave : s \notin full_files[m].slug

\* C4: tag_reappear_field_changes leaves, for every wave i >= 2 and every
\* monitored field, changed_<field> = 1 on a reappeared slug exactly when its
\* value in wave i is not its value in the latest wave k <= i-2 that holds the
\* slug, and leaves the tag of a slug that did not reappear as it was.
C4_ReappearedComparedWithLastAppearance ==
  [][pc = "tag_reappear_field_changes" =>
       \A i \in Waves : i >= 2 =>
         \A f \in MonitoredFields : \A s \in files[i].slug :
           IF files[i].col["reappeared"][s] = "1"
           THEN (HasCol(full_files[i], f)
                 /\ HasCol(full_files[LatestWaveWith(s, i - 2)], f)) =>
                  ((HasCol(files'[i], ChangedCol(f))
                    /\ files'[i].col[ChangedCol(f)][s] = "1")
                     <=> full_files[i].col[f][s]
                           # full_files[LatestWaveWith(s, i - 2)].col[f][s])
           ELSE HasCol(files[i], ChangedCol(f)) =>
                  /\ HasCol(files'[i], ChangedCol(f))
                  /\ files'[i].col[ChangedCol(f)][s] = files[i].col[ChangedCol(f)][s]
    ]_vars

\* ======================================================================
\* License tags (specification SpecLicense)
\* ======================================================================
\* What the registry join leaves on a listing of a wave that has a license
\* column: no license number, a number the registry does not hold (status and
\* issue date missing), or a number the registry holds with its status text
\* and issue date.
LicenseKinds ==
  {[license |-> NaN, status |-> NaN, issue_date |-> NaN],
   [license |-> "c10-0000001-lic", status |-> NaN, issue_date |-> NaN],
   [license |-> "c10-0000002-lic", status |-> "active", issue_date |-> "06/01/2019"],
   [license |-> "c10-0000003-lic", status |-> "active", issue_date |-> "03/01/2020"],
   [license |-> "c10-0000004-lic", status |-> "active, pending renewal",
    issue_date |-> "06/01/2019"],
   [license |-> "c10-0000005-lic", status |-> "expired", issue_date |-> "06/01/2019"]}

LicenseKindsB ==
  {[license |-> "c10-0000001-lic", status |-> NaN, issue_date |-> NaN],
   [license |-> "c10-0000006-lic", status |-> "active", issue_date |-> "06/01/2019"],
   [license |-> "c10-0000007-lic", status |-> "expired", issue_date |-> "06/01/2019"]}

NoLicenseColumn == [license |-> "no column", status |-> NaN, issue_date |-> NaN]

AbsentListing == [license |-> "absent", status |-> NaN, issue_date |-> NaN]

ACCESS_DATE == "2020-01-12"

LicenseColumns == {"url", "access_date", "license", "status", "issue_date"}

\* main after add_license_info: each wave has the license columns or not
InitLicense ==
  /\ file_count \in 1 .. MaxLicenseWaves
  /\ filenames = [i \in Waves |-> PANEL_DATES[i + 1]]
  /\ \E licensed \in [Waves -> BOOLEAN],
        a \in [Waves -> LicenseKinds \cup {NoLicenseColumn, AbsentListing}],
        b \in [Waves -> LicenseKindsB \cup {NoLicenseColumn, AbsentListing}] :
       /\ \A i \in Waves :
            /\ a[i] # AbsentListing \/ b[i] # AbsentListing
            /\ a[i] # AbsentListing => (a[i] = NoLicenseColumn <=> ~licensed[i])
            /\ b[i] # AbsentListing => (b[i] = NoLicenseColumn <=> ~licensed[i])
       /\ files = [i \in Waves |->
                     Frame({s \in Slugs : (s = "a" /\ a[i] # AbsentListing)
                                            \/ (s = "b" /\ b[i] # AbsentListing)},
                           IF licensed[i] THEN LicenseColumns ELSE {"url", "access_date"},
                           [s \in Slugs, c \in LicenseColumns |->
                              IF c = "url" THEN Url(s)
                              ELSE IF c = "access_date" THEN ACCESS_DATE
                              ELSE IF s = "a" THEN a[i][c] ELSE b[i][c]])]
  /\ full_files = files
  /\ slugs_at_i = << >>
  /\ slugs_up_to_i = << >>
  /\ tag_list = {}
  /\ company = << >>
  /\ error = "none"
  /\ pc = "tag_license_status"

NextLicense ==
  \/ TagLicenseStatus
  \/ TagAssumedLicenseStatus

SpecLicense == InitLicense /\ [][NextLicense]_vars

\* C6: once tag_license_status has run, in every wave that has a license column
\* and for every status category c, c_license is 1 on a record exactly when its
\* license is present, its issue date is present and not later than the access
\* date, and its status text contains c.
C6_CategoryTagIffLicensedIssuedAndStatusContains ==
  pc = "tag_assumed_license_status" =>
    \A i \in Waves : HasCol(full_files[i], "license") =>
      \A c \in LICENSE_STATUSES : \A s \in files[i].slug :
        (HasCol(files[i], StatusTagName(c)) /\ files[i].col[StatusTagName(c)][s] = "1")
          <=> /\ full_files[i].col["license"][s] # NaN
              /\ full_files[i].col["issue_date"][s] # NaN
              /\ IssuedByAccessDate(full_files[i], s)
              /\ StrContains(full_files[i].col["status"][s], c)

\* a record is active-licensed in its wave
HasActiveLicense(i, s) ==
  HasCol(files[i], "active_license") /\ files[i].col["active_license"][s] = "1"

\* active_after[N-1] = {}, active_after[i] = active_after[i+1] \cup the slugs
\* with active_license = 1 in wave i+1
RECURSIVE ActiveAfter(_)
ActiveAfter(i) ==
  IF i >= file_count - 1 THEN {}
  ELSE ActiveAfter(i + 1) \cup {s \in files[i + 1].slug : HasActiveLicense(i + 1, s)}

\* C7: when tag_assumed_license_status is over, assumed_license is 1 on a
\* record of wave i exactly when its slug is in active_after[i] and the record
\* is not active-licensed in wave i.
C7_AssumedIffActiveLaterAndNotNow ==
  (pc = "tag_continued" \/ error = "KeyError") =>
    \A i \in Waves : \A s \in files[i].slug :
      (HasCol(files[i], "assumed_license") /\ files[i].col["assumed_license"][s] = "1")
        <=> (s \in ActiveAfter(i) /\ ~HasActiveLicense(i, s))

\* the license steps are over: tag_assumed_license_status has returned or has
\* stopped on the lookup of a tag that a wave does not carry
AssumedLicenseStepOver ==
  pc = "tag_continued" \/ (pc = "raised" /\ error = "KeyError")

\* a wave that has a license column and carries no active_license tag
LacksActiveLicenseTag(i) ==
  HasCol(files[i], "license") /\ ~HasCol(files[i], "active_license")

\* C11: an absent optional column or upstream tag never leads to an error
\* state.  When tag_assumed_license_status is over no error has been raised,
\* assumed_license is left out of exactly the waves that have a license column
\* and no active_license tag, and every wave that has a license column still
\* carries its possible_license and future_license_explicit tags.
C11_AbsentColumnOrTagOmitsOnlyDependentTags ==
  AssumedLicenseStepOver =>
    /\ pc # "raised"
    /\ \A i \in Waves :
         /\ HasCol(files[i], "assumed_license") <=> ~LacksActiveLicenseTag(i)
         /\ HasCol(files[i], "license") =>
              /\ HasCol(files[i], "possible_license")
              /\ HasCol(files[i], "future_license_explicit")

\* ======================================================================
\* Dates of the license tags (specification SpecLicenseDates)
\* ======================================================================
\* An issue date of the registry is a string holding a '/' (get_license_df
\* keeps no other); an access date is what the panel file holds.
MALFORMED_ISSUE_DATE == "2019/06/01"
MALFORMED_ACCESS_DATE == "01/12/2020"

AccessDates == {ACCESS_DATE, NaN, MALFORMED_ACCESS_DATE}

\* the license cells of listing a: unmatched, or matched with an issue date
\* before the access date, after it, or not in the month/day/year format
DatedKinds ==
  {[license |-> "c10-0000001-lic", status |-> NaN, issue_date |-> NaN],
   [license |-> "c10-0000002-lic", status |-> "active", issue_date |-> "06/01/2019"],
   [license |-> "c10-0000003-lic", status |-> "active", issue_date |-> "03/01/2020"],
   [license |-> "c10-0000008-lic", status |-> "active",
    issue_date |-> MALFORMED_ISSUE_DATE]}

\* the license cells of listing b, whose access date is always well formed
DatedKindsB ==
  {[license |-> "c10-0000001-lic", status |-> NaN, issue_date |-> NaN],
   [license |-> "c10-0000007-lic", status |-> "expired", issue_date |-> "06/01/2019"]}

InitLicenseDates ==
  /\ file_count \in 1 .. MaxDateWaves
  /\ filenames = [i \in Waves |-> PANEL_DATES[i + 1]]
  /\ \E licensed \in [Waves -> BOOLEAN],
        present \in [Waves -> (SUBSET Slugs) \ {{}}],
        a \in [Waves -> DatedKinds],
        b \in [Waves -> DatedKindsB],
        access \in [Waves -> AccessDates] :
       files = [i \in Waves |->
                  Frame(present[i],
                        IF licensed[i] THEN LicenseColumns ELSE {"url", "access_date"},
                        [s \in Slugs, c \in LicenseColumns |->
                           IF c = "url" THEN Url(s)
                           ELSE IF c = "access_date"
                                THEN (IF s = "a" THEN access[i] ELSE ACCESS_DATE)
                           ELSE IF s = "a" THEN a[i][c] ELSE b[i][c]])]
  /\ full_files = files
  /\ slugs_at_i = << >>
  /\ slugs_up_to_i = << >>
  /\ tag_list = {}
  /\ company = << >>
  /\ error = "none"
  /\ pc = "tag_license_status"

NextLicenseDates ==
  \/ TagLicenseStatus
  \/ TagAssumedLicenseStatus

SpecLicenseDates == InitLicenseDates /\ [][NextLicenseDates]_vars

\* the record's issue date or access date is absent or is not in its format
DateUnusable(df, s) ==
  \/ df.col["issue_date"][s] = NaN
  \/ df.col["access_date"][s] = NaN
  \/ StrptimeRaises("%m/%d/%Y", df.col["issue_date"][s])
  \/ StrptimeRaises("%Y-%m-%d", df.col["access_date"][s])

\* C12: once tag_license_status is over, a wave with a license column that
\* holds a record whose issue date or access date is absent or malformed has
\* been tagged to the end (it carries future_license_explicit, the last tag
\* the step sets), and on that record future_license_explicit and every
\* category tag the wave carries are 0.
C12_UnusableDateComparesFalseWithoutError ==
  pc # "tag_license_status" =>
    \A i \in Waves : HasCol(full_files[i], "license") =>
      \A s \in full_files[i].slug : DateUnusable(full_files[i], s) =>
        /\ HasCol(files[i], "future_license_explicit")
        /\ files[i].col["future_license_explicit"][s] = "0"
        /\ \A c \in LICENSE_STATUSES :
             HasCol(files[i], StatusTagName(c)) => files[i].col[StatusTagName(c)][s] = "0"

\* ======================================================================
\* Company mapping (specification SpecCompany)
\* ======================================================================
CompanySlugs == {"a", "b", "c"}
Emails == {NaN, "one@shop.com", "two@shop.com"}
Phones == {"15105550001", "15105550002"}
\* the product names of a listing's rows; {NaN} when it lists no product
ProductSets == {{"og kush"}, {"og kush", "sour diesel"}, {NaN}}

\* one merged wave, with or without a phone column (clean_phone leaves no row
\* without a phone when the column is there)
InitCompany ==
  /\ file_count = 1
  /\ filenames = [i \in Waves |-> PANEL_DATES[i + 1]]
  /\ \E slugset \in (SUBSET CompanySlugs) \ {{}}, has_phone \in BOOLEAN :
     \E email \in [slugset -> Emails], phone \in [slugset -> Phones],
        product \in [slugset -> ProductSets] :
       files = [i \in Waves |->
                  Frame(slugset,
                        {"url", "email", "product_name"}
                          \cup (IF has_phone THEN {"phone"} ELSE {}),
                        [s \in slugset, c \in {"url", "email", "phone", "product_name"} |->
                           IF c = "url" THEN Url(s)
                           ELSE IF c = "email" THEN email[s]
                           ELSE IF c = "phone" THEN phone[s]
                           ELSE product[s]])]
  /\ full_files = files
  /\ slugs_at_i = << >>
  /\ slugs_up_to_i = << >>
  /\ tag_list = {}
  /\ company = << >>
  /\ error = "none"
  /\ pc = "gen_company_mapping"

NextCompany == GenCompanyMapping

SpecCompany == InitCompany /\ [][NextCompany]_vars

\* two slugs share a bucket key: an equal product set, an equal email (two
\* missing emails count as equal) or, with a phone column, an equal phone
SharesKey(df, s, u) ==
  \/ df.col["product_name"][s] = df.col["product_name"][u]
  \/ df.col["email"][s] = df.col["email"][u]
  \/ HasCol(df, "phone") /\ df.col["phone"][s] = df.col["phone"][u]

RECURSIVE ChainedFrom(_, _)
ChainedFrom(df, reached) ==
  LET more == reached \cup {u \in df.slug : \E s \in reached : SharesKey(df, s, u)}
  IN  IF more = reached THEN reached ELSE ChainedFrom(df, more)

\* C5: gen_company_mapping gives two slugs of a wave the same company id
\* exactly when a chain of shared product sets, emails or phones connects them,
\* a missing value being one shared key; so a slug that shares neither its
\* product set nor its non-empty email (nor its phone) with another slug has a
\* company id of its own.
C5_SameCompanyIffChainOfSharedKeys ==
  (pc = "done" /\ error = "none") =>
    \A i \in Waves :
      /\ \A s \in files[i].slug, u \in files[i].slug :
           (company[i][s] = company[i][u]) <=> (u \in ChainedFrom(files[i], {s}))
      /\ \A s \in files[i].slug :
           (/\ files[i].col["email"][s] # NaN
            /\ \A u \in files[i].slug \ {s} : ~SharesKey(files[i], s, u))
             => \A u \in files[i].slug \ {s} : company[i][s] # company[i][u]

====
